---- MODULE Spec2Model ----
(***************************************************************************)
(* Model of sdk/src/inflation.rs: the Inflation parameter record, its      *)
(* constructors, and the four queries total, foundation, validator, vault. *)
(*                                                                         *)
(* f64 values are modelled as binary floating-point numbers of reduced     *)
(* width: a value is an integer count of quanta of 2^-FracBits (the        *)
(* subnormal spacing) carrying at most PrecBits significant bits, and      *)
(* every arithmetic operation returns the exact result rounded to the      *)
(* nearest such value, ties to even, which is IEEE 754's rule.  Decimal    *)
(* literals of the source are rounded into the format the same way.        *)
(***************************************************************************)
EXTENDS Integers, Sequences, FiniteSets

\* ---------------------------------------------------------------- bounds
\* significant bits of the modelled float format (f64: 53)
PrecBits == 8
\* the smallest positive value of the format is 2^-FracBits (f64: 2^-1074)
FracBits == 14
\* whole years 0 .. MaxYear are queried, besides the years of the tests
MaxYear == 12
\* negative whole years -MaxNegYear .. -1 are queried
MaxNegYear == 2

\* ------------------------------------------------------ f64 arithmetic
RECURSIVE Pow2(_)
Pow2(k) == IF k <= 0 THEN 1 ELSE 2 * Pow2(k - 1)

RECURSIVE BitLen(_)
BitLen(n) == IF n <= 0 THEN 0 ELSE 1 + BitLen(n \div 2)

\* the float nearest to a / b quanta (a >= 0, b > 0), ties to even
RoundDiv(a, b) ==
    LET q    == a \div b
        step == Pow2(BitLen(q) - PrecBits)
        unit == b * step
        k    == a \div unit
        rem  == a - k * unit
        up   == (rem > unit - rem) \/ (rem = unit - rem /\ k % 2 = 1)
    IN  (IF up THEN k + 1 ELSE k) * step

\* the float nearest to the exact ratio a / b of two integers, either sign
Round(a, b) == IF a < 0 THEN 0 - RoundDiv(0 - a, b) ELSE RoundDiv(a, b)

\* a decimal literal num/den of the source, as the compiler rounds it
Lit(num, den) == Round(num * Pow2(FracBits), den)

fadd(x, y) == Round(x + y, 1)
fsub(x, y) == Round(x - y, 1)
fmul(x, y) == Round(x * y, Pow2(FracBits))

\* 1.0 and the whole number k as floats
One == Pow2(FracBits)
Whole(k) == Round(k * One, 1)

\* f64::powf for a whole exponent y >= 0: powf(x, 0) = 1 exactly, and for
\* y = k > 0 the product of k factors x, rounded after every multiplication
\* (the library function is not part of this file and its precision is
\* unspecified; the rounded product is within rounding error of the exact
\* power, is exact for the bases 0 and 1, and is non-increasing in k for a
\* base in [0, 1]).
\* powk(p, x, k) is p multiplied k times by x; the first half of the
\* factors is multiplied in (and its value settled by the test h = h)
\* before the second half, so the value is that of the left-to-right
\* product and the evaluation stays shallow.
RECURSIVE powk(_, _, _)
powk(p, x, k) ==
    IF k <= 0 THEN p
    ELSE IF k = 1 THEN fmul(p, x)
    ELSE LET h == powk(p, x, k \div 2)
         IN  IF h = h THEN powk(h, x, k - (k \div 2)) ELSE h

\* mutant of powf: the base is returned, whatever the exponent
powf_once(x, y) == x

powf(x, y) == powk(One, x, y \div One)

\* ---------------------------------------------------------- constants
DEFAULT_INITIAL == Lit(8, 100)
DEFAULT_TERMINAL == Lit(15, 1000)
DEFAULT_TAPER == Lit(15, 100)
DEFAULT_FOUNDATION == Lit(5, 100)
DEFAULT_FOUNDATION_TERM == Whole(7)

\* the values of VAULT_ADDRESSES, keyed foo and bar
VAULT_ADDRESSES == [foo |-> Lit(1, 100), bar |-> Lit(2, 100)]

\* the orders in which a HashMap may yield its two entries
VaultOrders == {<<"foo", "bar">>, <<"bar", "foo">>}

\* --------------------------------------------------------- constructors
Default ==
    [initial |-> DEFAULT_INITIAL, terminal |-> DEFAULT_TERMINAL,
     taper |-> DEFAULT_TAPER, foundation |-> DEFAULT_FOUNDATION,
     foundation_term |-> DEFAULT_FOUNDATION_TERM, unused |-> 0]

new_disabled ==
    [initial |-> 0, terminal |-> 0, taper |-> 0, foundation |-> 0,
     foundation_term |-> 0, unused |-> 0]

new_fixed(validator) ==
    [initial |-> validator, terminal |-> validator, taper |-> One,
     foundation |-> 0, foundation_term |-> 0, unused |-> 0]

pico == new_fixed(Lit(1, 10000))

full ==
    [initial |-> DEFAULT_INITIAL, terminal |-> DEFAULT_TERMINAL,
     taper |-> DEFAULT_TAPER, foundation |-> 0, foundation_term |-> 0,
     unused |-> 0]

\* -------------------------------------------------------------- queries
\* a call returns a value, or panics on a failed assertion
Ok(v) == [ok |-> TRUE, v |-> v]
Panic == [ok |-> FALSE, v |-> 0]

\* the local `tapered` of total
tapered(self, year) == fmul(self.initial, powf(fsub(One, self.taper), year))

\* mutant of total: the comparison with terminal is left out
total_no_clamp(self, year) ==
    IF ~(year >= 0) THEN Panic ELSE Ok(tapered(self, year))

\* mutant of total: the assertion on year is left out
total_unchecked(self, year) ==
    IF tapered(self, year) > self.terminal
    THEN Ok(tapered(self, year)) ELSE Ok(self.terminal)

total(self, year) ==
    IF ~(year >= 0) THEN Panic
    ELSE LET t == tapered(self, year)
         IN  IF t > self.terminal THEN Ok(t) ELSE Ok(self.terminal)

\* mutant of foundation: the term's last instant still pays the foundation
foundation_inclusive(self, year) ==
    IF year <= self.foundation_term
    THEN LET t == total(self, year)
         IN  IF t.ok THEN Ok(fmul(t.v, self.foundation)) ELSE Panic
    ELSE Ok(0)

foundation(self, year) ==
    IF year < self.foundation_term
    THEN LET t == total(self, year)
         IN  IF t.ok THEN Ok(fmul(t.v, self.foundation)) ELSE Panic
    ELSE Ok(0)

\* the sum of the table's values, from 0.0, in the order the map yields them
vault(order) ==
    fadd(fadd(0, VAULT_ADDRESSES[order[1]]), VAULT_ADDRESSES[order[2]])

\* mutant of validator: the vault deduction is left out
validator_no_vault(self, year, order) ==
    LET t == total(self, year)
        f == foundation(self, year)
    IN  IF ~t.ok \/ ~f.ok THEN Panic ELSE Ok(fsub(t.v, f.v))

\* mutant of validator: a negative remainder is clamped to zero
validator_clamped(self, year, order) ==
    LET t == total(self, year)
        f == foundation(self, year)
        r == fsub(fsub(t.v, f.v), vault(order))
    IN  IF ~t.ok \/ ~f.ok THEN Panic ELSE Ok(IF r < 0 THEN 0 ELSE r)

\* operands are evaluated left to right; a panic in one ends the call
validator(self, year, order) ==
    LET t == total(self, year)
        f == foundation(self, year)
    IN  IF ~t.ok \/ ~f.ok THEN Panic
        ELSE Ok(fsub(fsub(t.v, f.v), vault(order)))

\* ------------------------------------------------------- input domains
\* values written to the public fields; 2.0 as taper and -2.0 as
\* foundation_term lie outside the valid range
InitialValues == {0, DEFAULT_TERMINAL, DEFAULT_INITIAL, Lit(1, 2)}
TerminalValues == {0, DEFAULT_TERMINAL, DEFAULT_INITIAL}
TaperValues == {0, DEFAULT_TAPER, One, Whole(2)}
FoundationValues == {0, DEFAULT_FOUNDATION, One}
TermValues == {Whole(0 - 2), 0, Lit(5, 2), DEFAULT_FOUNDATION_TERM}
FixedRates == {0, Lit(1, 10000), Lit(1, 1000), DEFAULT_INITIAL}

\* the last year of the tests' list [0.1, 0.5, 1.0, 7.0, 100.0]
LargeYear == 100

\* the years queried: the whole years -MaxNegYear .. MaxYear and LargeYear
\* (powf is modelled for whole exponents only)
Years == {Whole(k) : k \in ((0 - MaxNegYear) .. MaxYear) \cup {LargeYear}}

\* ---------------------------------------------------------------- state
\* inflation: the Inflation value held by the caller
\* ret: the last query made on it and what the call returned
VARIABLES inflation, ret

vars == <<inflation, ret>>

NoCall == [fn |-> "none", year |-> 0, ok |-> TRUE, v |-> 0]
Returned(fn, year, r) == [fn |-> fn, year |-> year, ok |-> r.ok, v |-> r.v]

Init == inflation = Default /\ ret = NoCall

\* the caller holds no unread result and may make its next call
Idle == ret = NoCall

CallDefault == Idle /\ inflation' = Default /\ UNCHANGED ret
CallNewDisabled == Idle /\ inflation' = new_disabled /\ UNCHANGED ret
CallNewFixed ==
    Idle /\ \E rate \in FixedRates : inflation' = new_fixed(rate) /\ UNCHANGED ret
CallPico == Idle /\ inflation' = pico /\ UNCHANGED ret
CallFull == Idle /\ inflation' = full /\ UNCHANGED ret

\* writes to the public fields
SetInitial ==
    Idle /\ \E x \in InitialValues :
        inflation' = [inflation EXCEPT !.initial = x] /\ UNCHANGED ret
SetTerminal ==
    Idle /\ \E x \in TerminalValues :
        inflation' = [inflation EXCEPT !.terminal = x] /\ UNCHANGED ret
SetTaper ==
    Idle /\ \E x \in TaperValues :
        inflation' = [inflation EXCEPT !.taper = x] /\ UNCHANGED ret
SetFoundation ==
    Idle /\ \E x \in FoundationValues :
        inflation' = [inflation EXCEPT !.foundation = x] /\ UNCHANGED ret
SetFoundationTerm ==
    Idle /\ \E x \in TermValues :
        inflation' = [inflation EXCEPT !.foundation_term = x] /\ UNCHANGED ret

CallTotal ==
    Idle /\ \E year \in Years :
        ret' = Returned("total", year, total(inflation, year)) /\ UNCHANGED inflation
CallFoundation ==
    Idle /\ \E year \in Years :
        ret' = Returned("foundation", year, foundation(inflation, year))
        /\ UNCHANGED inflation
CallValidator ==
    Idle /\ \E year \in Years, order \in VaultOrders :
        ret' = Returned("validator", year, validator(inflation, year, order))
        /\ UNCHANGED inflation
CallVault ==
    Idle /\ \E order \in VaultOrders :
        ret' = Returned("vault", 0, Ok(vault(order))) /\ UNCHANGED inflation

\* the caller has read the result (or caught the panic) of its last query
TakeResult == ~Idle /\ ret' = NoCall /\ UNCHANGED inflation

Next ==
    \/ CallDefault \/ CallNewDisabled \/ CallNewFixed \/ CallPico \/ CallFull
    \/ SetInitial \/ SetTerminal \/ SetTaper \/ SetFoundation \/ SetFoundationTerm
    \/ CallTotal \/ CallFoundation \/ CallValidator \/ CallVault
    \/ TakeResult

Spec == Init /\ [][Next]_vars
\* ------------------------------------------------------------- claims
Max(a, b) == IF a > b THEN a ELSE b
Abs(z) == IF z < 0 THEN 0 - z ELSE z

\* a valid configuration: all fields non-negative, taper and foundation
\* in [0, 1]
Valid(self) ==
    /\ self.initial >= 0 /\ self.terminal >= 0
    /\ self.taper >= 0 /\ self.taper <= One
    /\ self.foundation >= 0 /\ self.foundation <= One
    /\ self.foundation_term >= 0

\* the last query returned a value (did not panic) from fn
Got(fn) == ret.fn = fn /\ ret.ok

\* total and foundation at the year of the last query
TotalNow == total(inflation, ret.year).v
FoundationNow == foundation(inflation, ret.year).v

\* validator + foundation + vault, added left to right, after validator returned
SharesSum(order) == fadd(fadd(ret.v, FoundationNow), vault(order))

C2_ValidatorPlusFoundationIsTotal ==
    (inflation = Default /\ Got("validator"))
        => TotalNow = fadd(ret.v, FoundationNow)

\* C3: for a configuration built by new_fixed(rate), rate >= 0, total(year)
\* is rate at every year >= 0, year 0 and year 100 included.
C3_FixedTotalIsRate ==
    \A rate \in FixedRates :
        (inflation = new_fixed(rate) /\ Got("total")) => ret.v = rate

C3_Witness ==
    /\ inflation = new_fixed(DEFAULT_INITIAL) /\ Got("total")
    /\ ret.year = Whole(LargeYear) /\ ret.v = DEFAULT_INITIAL

C5_TotalNeverBelowTerminal ==
    (Valid(inflation) /\ Got("total")) =>
        /\ ret.v >= inflation.terminal
        /\ tapered(inflation, ret.year) <= inflation.terminal =>
              \A y2 \in Years :
                  y2 >= ret.year => total(inflation, y2).v = inflation.terminal
        /\ (inflation = Default /\ ret.year = Whole(LargeYear)) => ret.v = DEFAULT_TERMINAL

C5_Witness ==
    /\ inflation = Default /\ Got("total") /\ ret.year = Whole(LargeYear)
    /\ tapered(inflation, ret.year) < inflation.terminal
    /\ ret.v = DEFAULT_TERMINAL

\* C6: for a valid configuration, total, foundation and validator called
\* with a negative year fail (panic) and return no value.
C6_NegativeYearPanics ==
    (/\ Valid(inflation)
     /\ ret.fn \in {"total", "foundation", "validator"}
     /\ ret.year < 0) => ~ret.ok

C6_Witness ==
    /\ Valid(inflation) /\ inflation.foundation_term = 0
    /\ ret.fn = "foundation" /\ ret.year < 0 /\ ~ret.ok

\* C7 as stated: for a valid configuration total(0) is exactly initial.
C7_TotalAtZeroIsInitial ==
    (Valid(inflation) /\ Got("total") /\ ret.year = 0) => ret.v = inflation.initial

\* C7 amended: for a valid configuration total(0) is the larger of initial
\* and terminal: exactly initial when initial >= terminal, and terminal
\* when initial < terminal.
C7_TotalAtZeroIsMaxOfInitialAndTerminal ==
    (Valid(inflation) /\ Got("total") /\ ret.year = 0)
        => ret.v = Max(inflation.initial, inflation.terminal)

C7_Witness ==
    /\ Valid(inflation) /\ Got("total") /\ ret.year = 0
    /\ inflation.initial < inflation.terminal /\ ret.v = inflation.terminal

\* C8: for a valid configuration and a year >= 0, foundation(year) is
\* total(year) * foundation when year < foundation_term and exactly 0 when
\* year >= foundation_term; for the default configuration foundation(7) = 0
\* and foundation(y) > 0 for 0 <= y < 7.
C8_FoundationStepsToZeroAtTerm ==
    (Valid(inflation) /\ Got("foundation") /\ ret.year >= 0) =>
        /\ ret.year < inflation.foundation_term
              => ret.v = fmul(TotalNow, inflation.foundation)
        /\ ret.year >= inflation.foundation_term => ret.v = 0
        /\ inflation = Default => (ret.v > 0 <=> ret.year < Whole(7))

C8_Witness ==
    /\ inflation = Default /\ Got("foundation")
    /\ ret.year = inflation.foundation_term /\ ret.v = 0

\* C9: for a valid configuration, total is non-increasing in year when
\* taper > 0, and constant over all years >= 0 when taper = 0 or
\* initial = terminal.
C9_TotalNonIncreasing ==
    (Valid(inflation) /\ Got("total")) =>
        /\ inflation.taper > 0 =>
              \A y2 \in Years : y2 >= ret.year => total(inflation, y2).v <= ret.v
        /\ (inflation.taper = 0 \/ inflation.initial = inflation.terminal) =>
              \A y2 \in Years : y2 >= 0 => total(inflation, y2).v = ret.v

C9_Witness ==
    /\ Valid(inflation) /\ Got("total") /\ ret.year = 0
    /\ inflation.taper > 0 /\ inflation.taper < One
    /\ total(inflation, Whole(1)).v < ret.v

\* C10: for new_disabled(), at every year >= 0, total is 0, foundation is 0
\* and validator is -vault(): negative, not clamped to zero.
C10_DisabledValidatorIsMinusVault ==
    (inflation = new_disabled /\ ret.ok /\ ret.year >= 0) =>
        /\ ret.fn = "total" => ret.v = 0
        /\ ret.fn = "foundation" => ret.v = 0
        /\ ret.fn = "validator" =>
              \A order \in VaultOrders : ret.v = 0 - vault(order) /\ ret.v < 0

C10_Witness ==
    /\ inflation = new_disabled /\ Got("validator")
    /\ ret.year = Whole(MaxYear) /\ ret.v < 0
====
